---- MODULE Spec2Model ----
(***************************************************************************)
(* A model of ddlparse (src/ddlparse/ddlparse.py): the column model        *)
(* DdlParseColumn, the case-insensitive ordered collection                 *)
(* DdlParseColumnDict, the table model DdlParseTable and the driver        *)
(* DdlParse.parse.                                                         *)
(*                                                                         *)
(* Text is a sequence of one-character strings, so that upper(), lower(),  *)
(* int() and re.search() are computed character by character.  A Python    *)
(* value that may be None is a sequence of length at most one: None is     *)
(* <<>> and a value v is <<v>>.                                            *)
(***************************************************************************)
EXTENDS Integers, Sequences, FiniteSets, TLC

VARIABLES
    col,     \* one DdlParseColumn: name, data_type, length, scale and the flags
    args,    \* the arguments that column was constructed with
    out,     \* what the last read of the column returned, None after a write
    ddl,     \* DdlParse._ddl
    table,   \* DdlParse._table, the one DdlParseTable of the parser instance
    calls,   \* the number of parse calls made on the instance
    result,  \* what the last parse call returned or raised, None before it
    walk,    \* the last parse call: its tree and the collection after each element
    held,    \* what the Table held when a parse call first returned it, None before
    fields   \* what the last to_bigquery_fields since the last parse returned

colVars == <<col, args, out>>
vars == <<col, args, out, ddl, table, calls, result, walk, held, fields>>

None == <<>>
Some(v) == <<v>>

(***************************************************************************)
(* str.upper(), str.lower(), int(), re.search() with a literal pattern     *)
(***************************************************************************)
LowerAlpha == <<"a","b","c","d","e","f","g","h","i","j","k","l","m",
                "n","o","p","q","r","s","t","u","v","w","x","y","z">>
UpperAlpha == <<"A","B","C","D","E","F","G","H","I","J","K","L","M",
                "N","O","P","Q","R","S","T","U","V","W","X","Y","Z">>
DigitChars == <<"0","1","2","3","4","5","6","7","8","9">>

upperChar(c) ==
    IF \E i \in DOMAIN LowerAlpha : LowerAlpha[i] = c
    THEN UpperAlpha[CHOOSE i \in DOMAIN LowerAlpha : LowerAlpha[i] = c]
    ELSE c

lowerChar(c) ==
    IF \E i \in DOMAIN UpperAlpha : UpperAlpha[i] = c
    THEN LowerAlpha[CHOOSE i \in DOMAIN UpperAlpha : UpperAlpha[i] = c]
    ELSE c

upper(s) == [i \in 1..Len(s) |-> upperChar(s[i])]
lower(s) == [i \in 1..Len(s) |-> lowerChar(s[i])]

IsDigit(c) == \E i \in DOMAIN DigitChars : DigitChars[i] = c
DigitValue(c) == (CHOOSE i \in DOMAIN DigitChars : DigitChars[i] = c) - 1

RECURSIVE int(_)
int(s) ==
    IF s = <<>> THEN 0
    ELSE int(SubSeq(s, 1, Len(s) - 1)) * 10 + DigitValue(s[Len(s)])

\* re.search(pat, s) for a pattern without metacharacters: pat occurs in s
search(pat, s) ==
    \E i \in 0..(Len(s) - Len(pat)) : SubSeq(s, i + 1, i + Len(pat)) = pat

\* the two-place format with one space between
format2(a, b) == a \o <<" ">> \o b

(***************************************************************************)
(* re.findall of the pattern  (digits) spaces commas spaces (digits)  on    *)
(* text: the first match.  Every part after the first group may match the  *)
(* empty text, so the greedy attempt at the first digit is the match.      *)
(***************************************************************************)
\* the first index >= i of s whose character is not in the class, or Len(s)+1
RECURSIVE skipWhile(_, _, _)
skipWhile(s, i, cls) ==
    IF i <= Len(s) /\ s[i] \in cls THEN skipWhile(s, i + 1, cls) ELSE i

DigitClass == {DigitChars[i] : i \in DOMAIN DigitChars}
SpaceClass == {" "}
CommaClass == {","}

findall(text) ==
    LET b1 == skipWhile(text, 1, {text[i] : i \in DOMAIN text} \ DigitClass) IN
    IF b1 > Len(text) THEN <<>>
    ELSE LET e1 == skipWhile(text, b1, DigitClass)
             s1 == skipWhile(text, e1, SpaceClass)
             c1 == skipWhile(text, s1, CommaClass)
             b2 == skipWhile(text, c1, SpaceClass)
             e2 == skipWhile(text, b2, DigitClass)
         IN  << <<SubSeq(text, b1, e1 - 1), SubSeq(text, b2, e2 - 1)>> >>

(***************************************************************************)
(* DdlParseColumn                                                          *)
(***************************************************************************)
\* the scale stored for a second group g of the match
scaleOf_keepsZero(g) == IF g = <<>> THEN None ELSE Some(int(g))
scaleOf(g) == IF g = <<>> \/ int(g) = 0 THEN None ELSE Some(int(g))

\* _set_data_type: the fields data_type, length, scale
set_data_type(data_type_array) ==
    LET base == upper(data_type_array[1]) IN
    IF Len(data_type_array) < 2
    THEN [data_type |-> base, length |-> None, scale |-> None]
    ELSE LET matches == findall(data_type_array[2]) IN
         IF Len(matches) > 0
         THEN [data_type |-> base,
               length |-> Some(int(matches[1][1])),
               scale |-> scaleOf(matches[1][2])]
         ELSE [data_type |-> format2(base, data_type_array[2]),
               length |-> None, scale |-> None]

s_NOT_NULL == <<"N","O","T"," ","N","U","L","L">>
s_PRIMARY_KEY == <<"P","R","I","M","A","R","Y"," ","K","E","Y">>
s_UNIQUE == <<"U","N","I","Q","U","E">>

\* the constraint setter: three detectors on the upper-cased text
constraint_flags(constraint) ==
    LET c == IF constraint = None THEN None ELSE Some(upper(constraint[1])) IN
    [not_null |-> c # None /\ (search(s_NOT_NULL, c[1]) \/ search(s_PRIMARY_KEY, c[1])),
     pk |-> c # None /\ search(s_PRIMARY_KEY, c[1]),
     unique |-> c # None /\ search(s_UNIQUE, c[1])]

set_constraint(c, constraint) ==
    LET f == constraint_flags(constraint) IN
    [c EXCEPT !.constraint = IF constraint = None THEN None
                              ELSE Some(upper(constraint[1])),
              !.not_null = f.not_null, !.pk = f.pk, !.unique = f.unique]

\* DdlParseColumn.__init__
DdlParseColumn(name, data_type_array, constraint) ==
    LET t == set_data_type(data_type_array) IN
    set_constraint([name |-> name, data_type |-> t.data_type,
                    length |-> t.length, scale |-> t.scale,
                    constraint |-> None, not_null |-> FALSE, pk |-> FALSE, unique |-> FALSE],
                   constraint)

\* str.join with a single space, for a list of texts
RECURSIVE join(_)
join(arr) ==
    IF arr = <<>> THEN <<>>
    ELSE IF Len(arr) = 1 THEN arr[1]
    ELSE format2(arr[1], join(Tail(arr)))

\* the constraint getter
constraint(c) ==
    join((IF c.not_null
          THEN << (IF c.pk THEN s_PRIMARY_KEY ELSE s_NOT_NULL) >>
          ELSE <<>>)
         \o (IF c.unique THEN <<s_UNIQUE>> ELSE <<>>))

(***************************************************************************)
(* DdlParseColumn.bigquery_data_type                                       *)
(***************************************************************************)
s_CHAR == <<"C","H","A","R">>
s_TEXT == <<"T","E","X","T">>
s_INT == <<"I","N","T">>
s_SERIAL == <<"S","E","R","I","A","L">>
s_YEAR == <<"Y","E","A","R">>
s_FLOAT == <<"F","L","O","A","T">>
s_DOUBLE == <<"D","O","U","B","L","E">>
s_REAL == <<"R","E","A","L">>
s_MONEY == <<"M","O","N","E","Y">>
s_DATE == <<"D","A","T","E">>
s_TIME == <<"T","I","M","E">>
s_DATETIME == <<"D","A","T","E","T","I","M","E">>
s_TIMESTAMP == <<"T","I","M","E","S","T","A","M","P">>
s_TIMESTAMP_WITHOUT_TIME_ZONE == <<"T","I","M","E","S","T","A","M","P"," ","W","I","T","H","O","U","T"," ","T","I","M","E"," ","Z","O","N","E">>
s_TIMESTAMPTZ == <<"T","I","M","E","S","T","A","M","P","T","Z">>
s_TIMESTAMP_WITH_TIME_ZONE == <<"T","I","M","E","S","T","A","M","P"," ","W","I","T","H"," ","T","I","M","E"," ","Z","O","N","E">>
s_BOOL == <<"B","O","O","L">>
s_NUMERIC == <<"N","U","M","E","R","I","C">>
s_DECIMAL == <<"D","E","C","I","M","A","L">>

\* a compiled pattern (an alternation of literals) or a plain string
Re(alts) == [isstr |-> FALSE, pats |-> alts]
Str(s) == [isstr |-> TRUE, pats |-> {s}]

\* BQ_DATA_TYPE_DIC, in the order the dictionary literal lists its keys
BQ_DATA_TYPE_DIC ==
    << [bq_type |-> "STRING",    conditions |-> <<Re({s_CHAR, s_TEXT})>>],
       [bq_type |-> "INTEGER",   conditions |-> <<Re({s_INT, s_SERIAL, s_YEAR})>>],
       [bq_type |-> "FLOAT",     conditions |-> <<Re({s_FLOAT, s_DOUBLE}), Str(s_REAL), Str(s_MONEY)>>],
       [bq_type |-> "DATE",      conditions |-> <<Str(s_DATE)>>],
       [bq_type |-> "TIME",      conditions |-> <<Str(s_TIME)>>],
       [bq_type |-> "DATETIME",  conditions |-> <<Str(s_DATETIME), Str(s_TIMESTAMP),
                                                  Str(s_TIMESTAMP_WITHOUT_TIME_ZONE)>>],
       [bq_type |-> "TIMESTAMP", conditions |-> <<Str(s_TIMESTAMPTZ), Str(s_TIMESTAMP_WITH_TIME_ZONE)>>],
       [bq_type |-> "BOOLEAN",   conditions |-> <<Re({s_BOOL})>>] >>

\* one condition of the inner loop: equality for a string, re.search for a pattern
condition_matches(condition, data_type) ==
    IF condition.isstr
    THEN data_type \in condition.pats
    ELSE \E p \in condition.pats : search(p, data_type)

\* the inner loop over the conditions of entry i: whether it reaches a break
entry_matches(i, data_type) ==
    \E k \in DOMAIN BQ_DATA_TYPE_DIC[i].conditions :
        condition_matches(BQ_DATA_TYPE_DIC[i].conditions[k], data_type)

\* the outer loop from entry i on.  The break leaves the inner loop only, so
\* the outer loop goes on to the last entry and a later match overwrites
\* this_bq_type.
RECURSIVE bq_scan(_, _, _)
bq_scan(data_type, i, this_bq_type) ==
    IF i > Len(BQ_DATA_TYPE_DIC) THEN this_bq_type
    ELSE bq_scan(data_type, i + 1,
                 IF entry_matches(i, data_type)
                 THEN Some(BQ_DATA_TYPE_DIC[i].bq_type)
                 ELSE this_bq_type)

Return(v) == [kind |-> "return", value |-> v]
Raise(e) == [kind |-> "raise", value |-> e]

\* the fallback for a type no entry matches
bq_fallback(c) ==
    IF c.data_type \in {s_NUMERIC, s_DECIMAL}
    THEN Return(IF c.scale = None THEN "INTEGER" ELSE "FLOAT")
    ELSE Raise("ValueError")

bigquery_data_type(c) ==
    LET this_bq_type == bq_scan(c.data_type, 1, None) IN
    IF this_bq_type = None THEN bq_fallback(c) ELSE Return(this_bq_type[1])

bigquery_mode(c) == IF c.not_null THEN "REQUIRED" ELSE "NULLABLE"

\* DdlParseBase.NAME_CASE and _get_name
NAME_CASE == {"original", "lower", "upper"}
get_name(name, name_case) ==
    IF name_case = "lower" THEN lower(name)
    ELSE IF name_case = "upper" THEN upper(name)
    ELSE name

\* to_bigquery_field: the field descriptor, as its three values
to_bigquery_field(c, name_case) ==
    LET t == bigquery_data_type(c) IN
    IF t.kind = "raise" THEN t
    ELSE Return([name |-> get_name(c.name, name_case), type |-> t.value,
                 mode |-> bigquery_mode(c)])

(***************************************************************************)
(* The inputs of the column model: type words as DDL writes them, the      *)
(* qualifier keywords the grammar yields, and size specs of the grammar's  *)
(* shape digits, spaces, commas, spaces, digits.                           *)
(***************************************************************************)
in_int == <<"i","n","t">>
in_VARCHAR == <<"V","A","R","C","H","A","R">>
in_text == <<"t","e","x","t">>
in_Double == <<"D","o","u","b","l","e">>
in_REAL == <<"R","E","A","L">>
in_money == <<"m","o","n","e","y">>
in_DATE == <<"D","A","T","E">>
in_time == <<"t","i","m","e">>
in_DATETIME == <<"D","A","T","E","T","I","M","E">>
in_timestamp == <<"t","i","m","e","s","t","a","m","p">>
in_TIMESTAMPTZ == <<"T","I","M","E","S","T","A","M","P","T","Z">>
in_boolean == <<"b","o","o","l","e","a","n">>
in_bigserial == <<"b","i","g","s","e","r","i","a","l">>
in_YEAR == <<"Y","E","A","R">>
in_NUMERIC == <<"N","U","M","E","R","I","C">>
in_decimal == <<"d","e","c","i","m","a","l">>
in_GEOMETRY == <<"G","E","O","M","E","T","R","Y">>
in_smalldatetime == <<"s","m","a","l","l","d","a","t","e","t","i","m","e">>
in_CHARINT == <<"C","H","A","R","I","N","T">>
in_int_bool == <<"i","n","t","_","b","o","o","l">>
in_TEXTFLOAT == <<"T","E","X","T","F","L","O","A","T">>
in_realm == <<"r","e","a","l","m">>
q_PRECISION == <<"P","R","E","C","I","S","I","O","N">>
q_WITH_TIME_ZONE == <<"W","I","T","H"," ","T","I","M","E"," ","Z","O","N","E">>
q_WITHOUT_TIME_ZONE == <<"W","I","T","H","O","U","T"," ","T","I","M","E"," ","Z","O","N","E">>

MaxDigits == 1

SizeDigits == {"0", "2"}
Separators == {<<>>, <<",">>, <<",", " ">>}
DigitStrings(lo) == UNION {[1..k -> SizeDigits] : k \in lo..MaxDigits}
SizeSpecs == {d1 \o sep \o d2 : d1 \in DigitStrings(1), sep \in Separators,
                                d2 \in DigitStrings(0)}

PlainTypes == {in_int, in_VARCHAR, in_text, in_Double, in_REAL, in_money, in_DATE,
               in_time, in_DATETIME, in_timestamp, in_TIMESTAMPTZ, in_boolean,
               in_bigserial, in_YEAR, in_NUMERIC, in_decimal, in_GEOMETRY,
               in_smalldatetime, in_CHARINT, in_int_bool, in_TEXTFLOAT, in_realm}
SizedTypes == {in_NUMERIC, in_decimal}

TypeArrays ==
    {<<t>> : t \in PlainTypes}
    \cup {<<t, s>> : t \in SizedTypes, s \in SizeSpecs}
    \cup {<<in_VARCHAR, <<"2", "0">> >>, <<in_Double, q_PRECISION>>,
          <<in_timestamp, q_WITH_TIME_ZONE>>, <<in_timestamp, q_WITHOUT_TIME_ZONE>>,
          <<in_time, q_WITH_TIME_ZONE>>, <<in_NUMERIC, q_PRECISION, <<"2", ",", "2">> >>}

n_Id == <<"I","d">>
n_id == <<"i","d">>
n_ID == <<"I","D">>
n_nm == <<"n","m">>

c_not_null == <<"n","o","t"," ","n","u","l","l">>
c_PRIMARY_KEY == <<"P","R","I","M","A","R","Y"," ","K","E","Y">>
c_Not_Null_Unique == <<"N","o","t"," ","N","u","l","l"," ","U","n","i","q","u","e">>
c_default_unique == <<"d","e","f","a","u","l","t"," ","'","u","n","i","q","u","e","'">>

ConstraintTexts == {c_PRIMARY_KEY, c_Not_Null_Unique, c_default_unique}


(***************************************************************************)
(* DdlParseColumnDict: an OrderedDict, here the sequence of its items in   *)
(* insertion order, each a key and the column stored under it.             *)
(***************************************************************************)
\* the position of key among the items, 0 when it is absent
position(columns, key) ==
    IF \E i \in DOMAIN columns : columns[i].key = key
    THEN CHOOSE i \in DOMAIN columns : columns[i].key = key
    ELSE 0

\* __getitem__: the position of the item found under the lower-cased key,
\* 0 for the KeyError of a missing key
getitem_caseSensitive(columns, key) == position(columns, key)
getitem(columns, key) == position(columns, lower(key))

\* __setitem__: a new key goes to the end, an existing key keeps its place
\* and gets the new value
setitem_appendsAlways(columns, key, value) ==
    Append(columns, [key |-> lower(key), value |-> value])
setitem(columns, key, value) ==
    LET i == position(columns, lower(key)) IN
    IF i = 0 THEN Append(columns, [key |-> lower(key), value |-> value])
    ELSE [columns EXCEPT ![i].value = value]

\* append
append(columns, column_name, data_type_array) ==
    setitem(columns, column_name, DdlParseColumn(column_name, data_type_array, None))

\* DdlParseTable.__init__; is_temp is an attribute parse creates
EmptyTable == [schema |-> None, name |-> <<>>, is_temp |-> None, columns |-> <<>>]

(***************************************************************************)
(* DdlParseTable.to_bigquery_fields                                        *)
(***************************************************************************)
RECURSIVE fields_loop(_, _, _, _)
fields_loop(columns, i, name_case, bq_fields) ==
    IF i > Len(columns) THEN Return(bq_fields)
    ELSE LET f == to_bigquery_field(columns[i].value, name_case) IN
         IF f.kind = "raise" THEN f
         ELSE fields_loop(columns, i + 1, name_case, Append(bq_fields, f.value))

RECURSIVE fields_loop_skipsUnknown(_, _, _, _)
fields_loop_skipsUnknown(columns, i, name_case, bq_fields) ==
    IF i > Len(columns) THEN Return(bq_fields)
    ELSE LET f == to_bigquery_field(columns[i].value, name_case) IN
         fields_loop_skipsUnknown(columns, i + 1, name_case,
             IF f.kind = "raise" THEN bq_fields ELSE Append(bq_fields, f.value))

to_bigquery_fields_skipsUnknown(t, name_case) ==
    fields_loop_skipsUnknown(t.columns, 1, name_case, <<>>)
to_bigquery_fields(t, name_case) == fields_loop(t.columns, 1, name_case, <<>>)

(***************************************************************************)
(* DdlParse.  A DDL text is represented by what the grammar makes of it:   *)
(* the parse tree of its CREATE TABLE statement, or none for a text that   *)
(* holds no such statement (the empty text among them).  A tree has the    *)
(* schema (None for an unqualified table name), the table name, the TEMP   *)
(* marker and the body elements in source order; index clauses are         *)
(* suppressed by the grammar and never reach the tree.                     *)
(***************************************************************************)
EmptyText == [empty |-> TRUE, create |-> None]
OtherText == [empty |-> FALSE, create |-> None]
Statement(tree) == [empty |-> FALSE, create |-> Some(tree)]

\* _DDL_PARSE_EXPR.parseString
parseString(text) ==
    IF text.create = None THEN Raise("ParseException") ELSE Return(text.create[1])

Col(name, type, constraint_text) ==
    [tag |-> "column", name |-> name, type |-> type,
     constraint |-> constraint_text, constraint_columns |-> <<>>]
Con(type, names) ==
    [tag |-> "constraint", name |-> <<>>, type |-> type,
     constraint |-> None, constraint_columns |-> names]

s_UNIQUE_KEY == <<"U","N","I","Q","U","E"," ","K","E","Y">>

\* the branch on the constraint type of a table-level clause
apply_constraint_type_pkOnly(c, type) ==
    IF type = s_PRIMARY_KEY THEN [c EXCEPT !.pk = TRUE]
    ELSE IF type \in {s_UNIQUE, s_UNIQUE_KEY} THEN [c EXCEPT !.unique = TRUE]
    ELSE IF type = s_NOT_NULL THEN [c EXCEPT !.not_null = TRUE]
    ELSE c
apply_constraint_type(c, type) ==
    IF type = s_PRIMARY_KEY THEN [c EXCEPT !.not_null = TRUE, !.pk = TRUE]
    ELSE IF type \in {s_UNIQUE, s_UNIQUE_KEY} THEN [c EXCEPT !.unique = TRUE]
    ELSE IF type = s_NOT_NULL THEN [c EXCEPT !.not_null = TRUE]
    ELSE c

\* the loop over the constraint_columns of one clause, from the k-th name on:
\* the columns named before a missing one keep what was applied to them
RECURSIVE constraint_loop(_, _, _, _)
constraint_loop(columns, type, names, k) ==
    IF k > Len(names) THEN [columns |-> columns, error |-> None]
    ELSE LET i == getitem(columns, names[k]) IN
         IF i = 0 THEN [columns |-> columns, error |-> Some("KeyError")]
         ELSE constraint_loop(
                  [columns EXCEPT ![i].value = apply_constraint_type(@, type)],
                  type, names, k + 1)

\* the column branch: append, then the constraint setter when the clause has
\* trailing constraint text
column_step(columns, e) ==
    LET added == append(columns, e.name, e.type)
        i == position(added, lower(e.name))
    IN  IF e.constraint = None THEN added
        ELSE [added EXCEPT ![i].value = set_constraint(@, e.constraint)]

\* the loop over the body elements from the i-th on; seen collects the
\* collection as it is after each element that was processed to its end
RECURSIVE walk_loop(_, _, _, _)
walk_loop(columns, elements, i, seen) ==
    IF i > Len(elements)
    THEN [columns |-> columns, error |-> None, seen |-> seen]
    ELSE IF elements[i].tag = "column"
    THEN LET c == column_step(columns, elements[i]) IN
         walk_loop(c, elements, i + 1, Append(seen, c))
    ELSE IF elements[i].tag = "constraint"
    THEN LET r == constraint_loop(columns, elements[i].type,
                                  elements[i].constraint_columns, 1) IN
         IF r.error # None
         THEN [columns |-> r.columns, error |-> r.error, seen |-> seen]
         ELSE walk_loop(r.columns, elements, i + 1, Append(seen, r.columns))
    ELSE walk_loop(columns, elements, i + 1, Append(seen, columns))

\* the record of a call that did not reach the walk: whether the grammar was
\* run, and the table as the call found it
NoWalk == [grammar |-> FALSE, tree |-> None, before |-> EmptyTable, seen |-> <<>>]

\* the parser of DdlParse() before any call
ParserIdle ==
    /\ ddl = None
    /\ table = EmptyTable
    /\ calls = 0
    /\ result = None
    /\ walk = NoWalk
    /\ held = None
    /\ fields = None

\* the header assignments: schema only when the tree has one
set_header_alwaysSchema(t, tree) ==
    [t EXCEPT !.schema = tree.schema, !.name = tree.table, !.is_temp = Some(tree.temp)]
set_header(t, tree) ==
    [t EXCEPT !.schema = IF tree.schema # None THEN tree.schema ELSE @,
              !.name = tree.table,
              !.is_temp = Some(tree.temp)]

\* the test that raises ValueError before the grammar is run
ddl_missing_orEmpty(d) == d = None \/ d[1].empty
ddl_missing(d) == d = None

\* parse(ddl): the whole call
Parse(arg) ==
    LET d == IF arg # None THEN arg ELSE ddl IN
    /\ ddl' = d
    /\ calls' = calls + 1
    /\ fields' = None
    /\ UNCHANGED colVars
    /\ IF ddl_missing(d)
       THEN /\ result' = Some(Raise("ValueError"))
            /\ table' = table
            /\ walk' = [NoWalk EXCEPT !.before = table]
       ELSE LET ret == parseString(d[1]) IN
            IF ret.kind = "raise"
            THEN /\ result' = Some(ret)
                 /\ table' = table
                 /\ walk' = [NoWalk EXCEPT !.grammar = TRUE, !.before = table]
            ELSE LET tree == ret.value
                     t == set_header(table, tree)
                     w == walk_loop(t.columns, tree.columns, 1, <<t.columns>>)
                 IN  /\ table' = [t EXCEPT !.columns = w.columns]
                     /\ result' = Some(IF w.error = None THEN Return("_table")
                                       ELSE Raise(w.error[1]))
                     /\ walk' = [grammar |-> TRUE, tree |-> Some(tree),
                                 before |-> table, seen |-> w.seen]
    /\ held' = IF held = None /\ result'[1].kind = "return" THEN Some(table') ELSE held

\* to_bigquery_fields(name_case) on the parser's table
Project(name_case) ==
    /\ fields' = Some([name_case |-> name_case, of |-> table,
                       value |-> to_bigquery_fields(table, name_case)])
    /\ UNCHANGED <<ddl, table, calls, result, walk, held>>
    /\ UNCHANGED colVars

n_geo == <<"g","e","o">>
n_NM == <<"N","M">>
n_t == <<"t">>
n_u == <<"u">>
n_s == <<"s">>

\* all sequences over S of length 1..n
SeqsUpTo(S, n) == UNION {[1..k -> S] : k \in 1..n}

Headers == {[schema |-> None, table |-> n_t, temp |-> FALSE],
            [schema |-> Some(n_s), table |-> n_u, temp |-> TRUE]}

Tree(h, body) == [schema |-> h.schema, table |-> h.table, temp |-> h.temp,
                  columns |-> body]

\* the parser specifications leave the lone column of SpecColumn alone
ColumnIdle ==
    /\ col = DdlParseColumn(n_Id, <<in_int>>, None)
    /\ args = [name |-> n_Id, data_type_array |-> <<in_int>>]
    /\ out = None

(***************************************************************************)
(* One parse call on a fresh parser: DdlParse() followed by parse(ddl),    *)
(* then projections of the table.                                          *)
(***************************************************************************)
MaxBody == 3

WalkElements ==
    {Col(n_id, <<in_int>>, None),
     Col(n_ID, <<in_NUMERIC, <<"2", ",", "2">> >>, Some(c_not_null)),
     Col(n_nm, <<in_VARCHAR, <<"2", "0">> >>, None),
     Col(n_geo, <<in_GEOMETRY>>, Some(c_PRIMARY_KEY)),
     Con(s_PRIMARY_KEY, <<n_Id>>),
     Con(s_UNIQUE, <<n_NM>>),
     Con(s_UNIQUE_KEY, <<n_nm, n_id>>),
     Con(s_NOT_NULL, <<n_ID>>)}

WalkHeader == [schema |-> None, table |-> n_t, temp |-> FALSE]
WalkTexts == {Statement(Tree(WalkHeader, b)) : b \in SeqsUpTo(WalkElements, MaxBody)}

InitWalk == ColumnIdle /\ ParserIdle

ParseFresh == \E text \in WalkTexts : calls = 0 /\ Parse(Some(text))
\* the caller reaches the table only through the return value of parse
ProjectTable == \E nc \in NAME_CASE : held # None /\ Project(nc)

NextWalk ==
    \/ ParseFresh
    \/ ProjectTable

SpecWalk == InitWalk /\ [][NextWalk]_vars

(***************************************************************************)
(* One parser instance used for several parse calls: DdlParse(ddl) with    *)
(* or without a text, then parse with or without an argument.              *)
(***************************************************************************)
MaxCalls == 2
MaxReuseBody == 1

ReuseElements ==
    {Col(n_id, <<in_int>>, None),
     Col(n_nm, <<in_VARCHAR, <<"2", "0">> >>, Some(c_not_null)),
     Con(s_PRIMARY_KEY, <<n_Id>>)}

ReuseTexts ==
    {EmptyText, OtherText}
    \cup {Statement(Tree(h, b)) : h \in Headers, b \in SeqsUpTo(ReuseElements, MaxReuseBody)}

OptionalTexts == {None} \cup {Some(x) : x \in ReuseTexts}

\* DdlParse.__init__
Init ==
    /\ ColumnIdle
    /\ ddl \in OptionalTexts
    /\ table = EmptyTable
    /\ calls = 0
    /\ result = None
    /\ walk = NoWalk
    /\ held = None
    /\ fields = None

ParseCall == \E arg \in OptionalTexts : calls < MaxCalls /\ Parse(arg)

Next ==
    \/ ParseCall
    \/ ProjectTable

Spec == Init /\ [][Next]_vars

(***************************************************************************)
(* The column alone: one DdlParseColumn, constructed as                    *)
(* DdlParseColumnDict.append constructs it (no constraint), then written   *)
(* and read through its public accessors.                                  *)
(***************************************************************************)
InitColumn ==
    /\ \E a \in TypeArrays :
          /\ col = DdlParseColumn(n_Id, a, None)
          /\ args = [name |-> n_Id, data_type_array |-> a]
    /\ out = None
    /\ ParserIdle

Write(c) ==
    /\ col' = c
    /\ out' = None
    /\ UNCHANGED <<args, ddl, table, calls, result, walk, held, fields>>

Read(op, v) ==
    /\ out' = Some([op |-> op, value |-> v])
    /\ UNCHANGED <<col, args, ddl, table, calls, result, walk, held, fields>>

SetConstraint == \E t \in {None} \cup {Some(x) : x \in ConstraintTexts} :
    Write(set_constraint(col, t))
SetNotNull == \E flag \in BOOLEAN : Write([col EXCEPT !.not_null = flag])
SetPrimaryKey == \E flag \in BOOLEAN : Write([col EXCEPT !.pk = flag])
SetUnique == \E flag \in BOOLEAN : Write([col EXCEPT !.unique = flag])
GetConstraint == Read("constraint", constraint(col))
GetBigqueryDataType == Read("bigquery_data_type", bigquery_data_type(col))
GetBigqueryMode == Read("bigquery_mode", bigquery_mode(col))

NextColumn ==
    \/ SetConstraint
    \/ SetNotNull
    \/ SetPrimaryKey
    \/ SetUnique
    \/ GetConstraint
    \/ GetBigqueryDataType
    \/ GetBigqueryMode

SpecColumn == InitColumn /\ [][NextColumn]_vars

(***************************************************************************)
(* Properties of the column model, checked under SpecColumn                *)
(***************************************************************************)
ReadOf(op) == out # None /\ out[1].op = op

\* the target type of the earliest entry of the table that matches data_type
MatchingEntries(data_type) ==
    {i \in DOMAIN BQ_DATA_TYPE_DIC : entry_matches(i, data_type)}
EarliestMatch(data_type) ==
    BQ_DATA_TYPE_DIC[CHOOSE i \in MatchingEntries(data_type) :
                        \A j \in MatchingEntries(data_type) : i <= j].bq_type

\* C3: bigquery_data_type returns the target type of the first entry, in the
\* order STRING, INTEGER, FLOAT, DATE, TIME, DATETIME, TIMESTAMP, BOOLEAN, one
\* of whose rules matches the base type; for a base type that matches entries
\* of several target types the result is the earliest of them.
C3_FirstMatchWins ==
    (ReadOf("bigquery_data_type") /\ MatchingEntries(col.data_type) # {})
        => out[1].value = Return(EarliestMatch(col.data_type))

\* what the code does instead: the last matching entry wins
C3_LastMatchWins ==
    (ReadOf("bigquery_data_type") /\ MatchingEntries(col.data_type) # {})
        => out[1].value =
             Return(BQ_DATA_TYPE_DIC[CHOOSE i \in MatchingEntries(col.data_type) :
                       \A j \in MatchingEntries(col.data_type) : j <= i].bq_type)

C3_SeveralEntriesMatch ==
    /\ ReadOf("bigquery_data_type")
    /\ Cardinality(MatchingEntries(col.data_type)) > 1

\* the value of a digit string, most significant digit first
RECURSIVE Horner(_, _)
Horner(d, acc) ==
    IF d = <<>> THEN acc ELSE Horner(Tail(d), acc * 10 + DigitValue(Head(d)))
DecimalValue(d) == Horner(d, 0)

AllDigits(s) == \A i \in DOMAIN s : IsDigit(s[i])
NoDigits(s) == \A i \in DOMAIN s : ~IsDigit(s[i])

\* the column was declared NUMERIC or DECIMAL with a size spec
NumericWithSize ==
    /\ Len(args.data_type_array) = 2
    /\ upper(args.data_type_array[1]) \in {s_NUMERIC, s_DECIMAL}
    /\ \E i \in DOMAIN args.data_type_array[2] : IsDigit(args.data_type_array[2][i])

\* the size spec reads first, separator, second: first a digit string, the
\* separator free of digits, second a digit string, empty when the separator is
SizeSplits ==
    LET spec == args.data_type_array[2] IN
    {<<i, j>> \in (1..Len(spec)) \X (1..Len(spec)) :
        /\ i <= j
        /\ AllDigits(SubSeq(spec, 1, i))
        /\ NoDigits(SubSeq(spec, i + 1, j))
        /\ AllDigits(SubSeq(spec, j + 1, Len(spec)))
        /\ (i = j => j = Len(spec))}

\* C4: for a column declared NUMERIC or DECIMAL with a size spec, length is
\* the first integer, scale is unset when the second integer is absent or
\* zero and is that integer otherwise, and bigquery_data_type is INTEGER
\* exactly when scale is unset and FLOAT otherwise.
C4_NumericScale ==
    NumericWithSize =>
        /\ SizeSplits # {}
        /\ \A ij \in SizeSplits :
              LET spec == args.data_type_array[2]
                  first == SubSeq(spec, 1, ij[1])
                  second == SubSeq(spec, ij[2] + 1, Len(spec))
              IN  /\ col.length = Some(DecimalValue(first))
                  /\ col.scale = IF second = <<>> \/ DecimalValue(second) = 0
                                 THEN None
                                 ELSE Some(DecimalValue(second))
        /\ ReadOf("bigquery_data_type") =>
              out[1].value = Return(IF col.scale = None THEN "INTEGER" ELSE "FLOAT")

\* a NUMERIC declared with a scale of zero was read as INTEGER
C4_ZeroScaleRead ==
    /\ NumericWithSize
    /\ args.data_type_array[2] = <<"2", ",", "0">>
    /\ col.scale = None
    /\ ReadOf("bigquery_data_type")
    /\ out[1].value = Return("INTEGER")

\* C6: primaryKey implies notNull for a column in every reachable state,
\* the states reached through the write accessors not_null, primary_key and
\* unique included.
C6_PrimaryKeyImpliesNotNull == col.pk => col.not_null

\* the canonical constraint string for the flags of c
CanonicalConstraint(c) ==
    LET first == IF c.pk THEN <<s_PRIMARY_KEY>>
                 ELSE IF c.not_null THEN <<s_NOT_NULL>> ELSE <<>>
        parts == first \o (IF c.unique THEN <<s_UNIQUE>> ELSE <<>>)
    IN  IF parts = <<>> THEN <<>>
        ELSE IF Len(parts) = 1 THEN parts[1]
        ELSE parts[1] \o <<" ">> \o parts[2]

\* C9: for every combination of the flags a column can reach through its
\* accessors, reading constraint gives PRIMARY KEY if primary key is set,
\* otherwise NOT NULL if not-null is set, otherwise nothing, then UNIQUE if
\* unique is set, joined by one space.
C9_ConstraintString ==
    ReadOf("constraint") => out[1].value = CanonicalConstraint(col)

(***************************************************************************)
(* Properties of one parse call, checked under SpecWalk                    *)
(***************************************************************************)
\* two names are equal ignoring case
CaseEq(a, b) == upper(a) = upper(b)

Body == walk.tree[1].columns
\* the i-th element of the body was reached by the walk, was processed to its end
Reached(i) == walk.tree # None /\ i \in DOMAIN Body /\ i <= Len(walk.seen)
Completed(i) == Reached(i) /\ i < Len(walk.seen)
\* the collection as element i found it and as it left it
Before(i) == walk.seen[i]
After(i) == walk.seen[i + 1]

NamesOf(e) == {e.constraint_columns[k] : k \in DOMAIN e.constraint_columns}
InCollection(columns, n) == \E j \in DOMAIN columns : CaseEq(n, columns[j].value.name)
Keys(columns) == [j \in DOMAIN columns |-> columns[j].key]

\* the flags a clause of the given type leaves on a column it names
Constrained(c, type) ==
    [name |-> c.name, data_type |-> c.data_type, length |-> c.length,
     scale |-> c.scale, constraint |-> c.constraint,
     not_null |-> c.not_null \/ type \in {s_PRIMARY_KEY, s_NOT_NULL},
     pk |-> c.pk \/ type = s_PRIMARY_KEY,
     unique |-> c.unique \/ type \in {s_UNIQUE, s_UNIQUE_KEY}]

\* C1: a table-level constraint clause applies its type to every column it
\* names, the name resolved ignoring case: PRIMARY KEY sets not-null and
\* primary-key, UNIQUE and UNIQUE KEY set unique, NOT NULL sets not-null; no
\* other flag of a named column and nothing of any other column changes, and
\* the order of the columns is unchanged.
C1_ConstraintClauseApplies ==
    \A i \in 1..(IF walk.tree = None THEN 0 ELSE Len(Body)) :
        (/\ Reached(i)
         /\ Body[i].tag = "constraint"
         /\ \A n \in NamesOf(Body[i]) : InCollection(Before(i), n))
        => /\ Completed(i)
           /\ Keys(After(i)) = Keys(Before(i))
           /\ \A j \in DOMAIN Before(i) :
                 After(i)[j].value =
                    IF \E n \in NamesOf(Body[i]) : CaseEq(n, Before(i)[j].value.name)
                    THEN Constrained(Before(i)[j].value, Body[i].type)
                    ELSE Before(i)[j].value

\* a PRIMARY KEY clause that names, in another case, one of two columns
C1_PrimaryKeyByOtherCase ==
    /\ walk.tree # None
    /\ Len(Body) = 3
    /\ Completed(3)
    /\ Body[3] = Con(s_PRIMARY_KEY, <<n_Id>>)
    /\ Len(table.columns) = 2
    /\ table.columns[1].value.name = n_id
    /\ table.columns[1].value.pk
    /\ ~table.columns[2].value.pk

\* C2: a table-level constraint clause that names a column not in the
\* collection when the clause is reached (a column a later clause defines
\* included) makes parse fail with the missing-key error and return no table;
\* a clause whose columns were all defined by earlier clauses never does.
C2_MissingColumnFails ==
    \A i \in 1..(IF walk.tree = None THEN 0 ELSE Len(Body)) :
        (Reached(i) /\ Body[i].tag = "constraint")
        => /\ (\E n \in NamesOf(Body[i]) : ~InCollection(Before(i), n))
                 => (result = Some(Raise("KeyError")) /\ Len(walk.seen) = i)
           /\ (\A n \in NamesOf(Body[i]) :
                   \E j \in 1..(i - 1) :
                       Body[j].tag = "column" /\ CaseEq(Body[j].name, n))
                 => ~(result = Some(Raise("KeyError")) /\ Len(walk.seen) = i)

\* a clause naming a column that the next clause defines
C2_ForwardReference ==
    /\ walk.tree # None
    /\ Len(Body) = 2
    /\ Body[1] = Con(s_PRIMARY_KEY, <<n_Id>>)
    /\ Body[2].tag = "column" /\ CaseEq(Body[2].name, n_Id)
    /\ result = Some(Raise("KeyError"))
    /\ table.columns = <<>>

NoSharedName(columns) ==
    \A j, k \in DOMAIN columns :
        (CaseEq(columns[j].value.name, columns[k].value.name)
            \/ lower(columns[j].key) = lower(columns[k].key)) => j = k

HasDuplicateColumn ==
    \E j, k \in DOMAIN Body :
        j < k /\ Body[j].tag = "column" /\ Body[k].tag = "column"
              /\ CaseEq(Body[j].name, Body[k].name)

\* C5: no two columns of a collection share a case-folded name, and parsing
\* a body with two column clauses whose names are equal ignoring case fails
\* with an error instead of returning a table.
C5_DuplicateIsError ==
    /\ NoSharedName(table.columns)
    /\ (walk.tree # None /\ HasDuplicateColumn) => result[1].kind = "raise"

\* C5 as the code has it: no two columns of a collection share a case-folded
\* name; a column clause is never an error, and one whose name equals,
\* ignoring case, the name of a column already in the collection replaces
\* that column where it stands, the other columns and the order unchanged.
C5_DuplicateReplaces ==
    /\ NoSharedName(table.columns)
    /\ \A i \in 1..(IF walk.tree = None THEN 0 ELSE Len(Body)) :
          (Reached(i) /\ Body[i].tag = "column")
          => /\ Completed(i)
             /\ NoSharedName(After(i))
             /\ IF InCollection(Before(i), Body[i].name)
                THEN /\ Keys(After(i)) = Keys(Before(i))
                     /\ \A j \in DOMAIN Before(i) :
                           IF CaseEq(Before(i)[j].value.name, Body[i].name)
                           THEN After(i)[j].value.name = Body[i].name
                           ELSE After(i)[j] = Before(i)[j]
                ELSE /\ Len(After(i)) = Len(Before(i)) + 1
                     /\ SubSeq(After(i), 1, Len(Before(i))) = Before(i)
                     /\ After(i)[Len(After(i))].value.name = Body[i].name

\* a body with the same column twice was parsed to a table of one column
C5_DuplicateParsed ==
    /\ walk.tree # None
    /\ Len(Body) = 2
    /\ Body[1].tag = "column" /\ Body[1].name = n_id
    /\ Body[2].tag = "column" /\ Body[2].name = n_ID
    /\ result = Some(Return("_table"))
    /\ Len(table.columns) = 1
    /\ table.columns[1].value.name = n_ID

\* a column whose base type some rule or the NUMERIC/DECIMAL fallback maps
Mappable(c) ==
    MatchingEntries(c.data_type) # {} \/ c.data_type \in {s_NUMERIC, s_DECIMAL}

\* C8: to_bigquery_fields returns one field descriptor per column in
\* insertion order or, if the base type of any column matches no rule and is
\* not the NUMERIC/DECIMAL fallback, fails with the unknown-type error and
\* yields no field list; either way the table and its columns are as they
\* were, so the output is a function of the table alone.
C8_ProjectionAllOrNothing ==
    fields # None =>
        LET f == fields[1] IN
        /\ table = f.of
        /\ IF \E j \in DOMAIN table.columns : ~Mappable(table.columns[j].value)
           THEN f.value = Raise("ValueError")
           ELSE /\ f.value.kind = "return"
                /\ Len(f.value.value) = Len(table.columns)
                /\ \A j \in DOMAIN table.columns :
                      f.value.value[j] =
                         to_bigquery_field(table.columns[j].value, f.name_case).value

\* a projection failed on the second of two columns
C8_FailedOnSecondColumn ==
    /\ fields # None
    /\ fields[1].value = Raise("ValueError")
    /\ Len(table.columns) = 2
    /\ Mappable(table.columns[1].value)
    /\ ~Mappable(table.columns[2].value)
    /\ table = held[1]

(***************************************************************************)
(* Properties of a parser instance over several calls, checked under Spec  *)
(***************************************************************************)
\* after a call, ddl is the text that call worked on: its argument if one was
\* given, otherwise the text stored before
Called == calls > 0

\* C7: whenever the effective DDL text of a parse call is empty or unset,
\* parse fails with the DDL-not-specified error before the grammar is run and
\* leaves the table unchanged.
C7_EmptyOrUnsetNotSpecified ==
    (Called /\ (ddl = None \/ ddl = Some(EmptyText)))
        => /\ result = Some(Raise("ValueError"))
           /\ ~walk.grammar
           /\ table = walk.before

\* C7 as the code has it: an unset text fails with the DDL-not-specified
\* error before the grammar is run; an empty text is not caught by that test
\* but handed to the grammar, which rejects it; the table is unchanged in
\* both cases.
C7_UnsetNotSpecified ==
    /\ (Called /\ ddl = None)
          => /\ result = Some(Raise("ValueError"))
             /\ ~walk.grammar
             /\ table = walk.before
    /\ (Called /\ ddl = Some(EmptyText))
          => /\ result = Some(Raise("ParseException"))
             /\ walk.grammar
             /\ table = walk.before

\* parse() without an argument on a parser constructed without a text
C7_ParseWithoutText ==
    /\ Called
    /\ ddl = None
    /\ result = Some(Raise("ValueError"))

\* the upper-cased names of the column clauses of a body, each once, in the
\* order of first appearance
RECURSIVE DeclaredNames(_, _)
DeclaredNames(body, acc) ==
    IF body = <<>> THEN acc
    ELSE DeclaredNames(Tail(body),
            IF Head(body).tag = "column"
               /\ \A k \in DOMAIN acc : acc[k] # upper(Head(body).name)
            THEN Append(acc, upper(Head(body).name))
            ELSE acc)

UpperNames(columns) == [j \in DOMAIN columns |-> upper(columns[j].value.name)]

\* the table as the DDL of the last call alone describes it
AsDeclared ==
    /\ table.schema = walk.tree[1].schema
    /\ table.name = walk.tree[1].table
    /\ UpperNames(table.columns) = DeclaredNames(Body, <<>>)

====
